---- MODULE Spec2Model ----
(***************************************************************************)
(* A model of the CanvasEntry tile of the MultiCanvas waveform renderer    *)
(* (src/src/drawer.canvasentry.js) and of the frame() wrapper              *)
(* (src/src/util/frame.js).                                                *)
(*                                                                         *)
(* JavaScript numbers are modelled as extended rationals n/d with d >= 0:  *)
(* d > 0 is the finite value n/d (in lowest terms), 1/0 is +Infinity,      *)
(* -1/0 is -Infinity and 0/0 is NaN.  Arithmetic is exact (no binary       *)
(* rounding) and the sign of zero is not tracked.                          *)
(***************************************************************************)
EXTENDS Integers, Sequences, FiniteSets, TLC

----------------------------------------------------------------------------
(* JavaScript number arithmetic *)

Abs(n) == IF n < 0 THEN -n ELSE n

Sign(n) == IF n < 0 THEN -1 ELSE IF n > 0 THEN 1 ELSE 0

RECURSIVE GCD(_, _)
GCD(a, b) == IF b = 0 THEN a ELSE GCD(b, a % b)

\* the number n/d, in canonical form
Num(n, d) ==
    IF d = 0 THEN [n |-> Sign(n), d |-> 0]
    ELSE LET g == GCD(Abs(n), Abs(d))
         IN  [n |-> (Sign(d) * n) \div g, d |-> Abs(d) \div g]

IntNum(k) == [n |-> k, d |-> 1]

NAN == [n |-> 0, d |-> 0]

INF == [n |-> 1, d |-> 0]

IsNaN(x) == x.d = 0 /\ x.n = 0

IsFinite(x) == x.d > 0

IsInteger(x) == x.d = 1

NumNeg(x) == [n |-> -x.n, d |-> x.d]

NumAdd(a, b) ==
    IF IsNaN(a) \/ IsNaN(b) THEN NAN
    ELSE IF a.d = 0 /\ b.d = 0 THEN (IF a.n = b.n THEN a ELSE NAN)
    ELSE IF a.d = 0 THEN a
    ELSE IF b.d = 0 THEN b
    ELSE Num(a.n * b.d + b.n * a.d, a.d * b.d)

NumSub(a, b) == NumAdd(a, NumNeg(b))

NumMul(a, b) == Num(a.n * b.n, a.d * b.d)

\* a / b; x / 0 is an infinity of the sign of x, 0 / 0 is NaN
NumDiv(a, b) ==
    IF b.n < 0 THEN Num(-(a.n * b.d), -(a.d * b.n))
    ELSE Num(a.n * b.d, a.d * b.n)

NumLess(a, b) ==
    IF IsNaN(a) \/ IsNaN(b) THEN FALSE
    ELSE IF a.d = 0 /\ b.d = 0 THEN a.n < b.n
    ELSE a.n * b.d < b.n * a.d

NumGeq(a, b) == ~IsNaN(a) /\ ~IsNaN(b) /\ ~NumLess(a, b)

\* Math.round: the nearest integer, halves towards +Infinity
MathRound(x) ==
    IF x.d = 0 THEN x ELSE IntNum((2 * x.n + x.d) \div (2 * x.d))

\* x || 0 on numbers: NaN and 0 are falsy
OrZero(x) == IF IsNaN(x) \/ x.n = 0 THEN IntNum(0) ELSE x

----------------------------------------------------------------------------
(* Bounds of the model *)

\* the waveform's total layout width, in CSS pixels
MaxTotalWidth == 4

\* blob exports issued in one run
MaxExports == 2

\* wrapped calls waiting for the next display frame
MaxQueue == 3

\* colors in a gradient list
MaxStops == 2

----------------------------------------------------------------------------
(* State *)

VARIABLES
    entry,      \* the CanvasEntry objects: entry[t] holds the fields of tile t
    canvas,     \* the canvas elements with their 2D context state
    series,     \* the caller's interleaved peaks array
    call,       \* the last method call: its name, arguments, outcome
    pass,       \* pass[t]: orientation flag of tile t's current render pass
    hung,       \* a handler is spinning in a loop that cannot end
    promises,   \* the Promises getImage(.., 'blob') has returned
    blobJobs,   \* toBlob callbacks the platform has yet to run
    rafQueue,   \* callbacks registered with reqAnimationFrame
    invoked,    \* arguments func received at the last display frame
    requested   \* wrapped calls made since the last display frame

vars == <<entry, canvas, series, call, pass, hung, promises, blobJobs,
          rafQueue, invoked, requested>>

\* a null reference (to a canvas element or a context)
NULL == <<"null">>

\* the tile of a call that is not a method call on a tile
NoTile == "none"

Tiles == {"A", "B"}

WaveEl(t) == <<t, "wave">>

ProgressEl(t) == <<t, "progress">>

Elements == {WaveEl(t) : t \in Tiles} \cup {ProgressEl(t) : t \in Tiles}

\* CanvasRenderingContext2D defaults
Identity == <<1, 0, 0, 1, 0, 0>>

Swap == <<0, 1, 1, 0, 0, 0>>

Solid(c) == [str |-> c]

ColorList(cs) == [arr |-> cs]

DefaultFillStyle == Solid("#000000")

\* what was last painted on a canvas: the call, and its geometry
Blank == [op |-> "none", rect |-> <<>>, pts |-> <<>>]

\* a canvas element the owner has created and positioned, not yet sized
NewCanvas(left) ==
    [offsetLeft |-> left, width |-> 0, height |-> 0, styleWidth |-> <<>>,
     transform |-> Identity, fillStyle |-> DefaultFillStyle, content |-> Blank]

\* the fields the constructor sets (id and canvasContextAttributes play no
\* part in any handler below), and the two the owner assigns right after
\* construction: hasProgressCanvas and halfPixel
NewEntry(hasProgress, halfPixel) ==
    [wave |-> NULL, waveCtx |-> NULL, progress |-> NULL, progressCtx |-> NULL,
     start |-> IntNum(0), end |-> IntNum(1),
     hasProgressCanvas |-> hasProgress, halfPixel |-> halfPixel]

Half == Num(1, 2)

HalfPixels == {IntNum(0), Half}

\* peaks arrays the caller may hold: N = 0 .. 3 pairs of (max, min)
PeakSeries ==
    { <<>>,
      <<IntNum(1), IntNum(-1)>>,
      <<IntNum(1), IntNum(-1), Half, NumNeg(Half)>>,
      <<Half, IntNum(0), IntNum(1), IntNum(-1), Num(1, 4), NumNeg(Half)>> }

NoCall == [op |-> "new", tile |-> NoTile, args |-> <<>>, raised |-> FALSE,
           unattached |-> FALSE, ret |-> [kind |-> "undefined"]]

InitWith(Flags, Pixels, Splits, Series) ==
    /\ \E hp \in Flags, px \in Pixels :
          entry = [t \in Tiles |-> NewEntry(hp, px)]
    /\ \E split \in Splits :
          canvas = [c \in Elements |->
                      NewCanvas(IF c[1] = "A" THEN 0 ELSE split)]
    /\ series \in Series
    /\ call = NoCall
    /\ pass = [t \in Tiles |-> "none"]
    /\ hung = FALSE
    /\ promises = <<>>
    /\ blobJobs = {}
    /\ rafQueue = <<>>
    /\ invoked = <<>>
    /\ requested = 0

----------------------------------------------------------------------------
(* Canvas platform operations used by the handlers *)

\* assigning canvas.width or canvas.height clears the bitmap and resets the
\* context to its default state
SetSize(cv, c, w, h) ==
    [cv EXCEPT ![c].width = w, ![c].height = h,
               ![c].transform = Identity, ![c].fillStyle = DefaultFillStyle,
               ![c].content = Blank]

\* ctx.clearRect(0, 0, ctx.canvas.width, ctx.canvas.height)
ClearRect(cv, c) ==
    [cv EXCEPT ![c].content =
        [op |-> "clearRect", rect |-> <<0, 0, cv[c].width, cv[c].height>>,
         pts |-> <<>>]]

\* ctx.setTransform(a, b, c, d, e, f) replaces the current matrix
SetTransform(cv, c, m) == [cv EXCEPT ![c].transform = m]

\* a fill call on context c (painted under c's current transform and style)
Paint(cv, c, op, rect, pts) ==
    [cv EXCEPT ![c].content = [op |-> op, rect |-> rect, pts |-> pts]]

\* the outcome of running (part of) a handler on tile record e
Outcome(e, cv, raised, hangs) ==
    [entry |-> e, cv |-> cv, raised |-> raised, hung |-> hangs]

Done(e, cv) == Outcome(e, cv, FALSE, FALSE)

Raise(e, cv) == Outcome(e, cv, TRUE, FALSE)

----------------------------------------------------------------------------
(* CanvasEntry handlers, each as the outcome it produces *)

initWave(e, cv, element) ==
    Done([e EXCEPT !.wave = element, !.waveCtx = element], cv)

initProgress(e, cv, element) ==
    Done([e EXCEPT !.progress = element, !.progressCtx = element], cv)

updateDimensions(e, cv, elementWidth, totalWidth, width, height) ==
    IF e.wave = NULL THEN Raise(e, cv)
    ELSE
    LET start == OrZero(NumDiv(IntNum(cv[e.wave].offsetLeft), IntNum(totalWidth)))
        end   == NumAdd(start, NumDiv(IntNum(elementWidth), IntNum(totalWidth)))
        e1    == [e EXCEPT !.start = start, !.end = end]
        cv1   == [SetSize(cv, e.wave, width, height)
                     EXCEPT ![e.wave].styleWidth = <<elementWidth, "px">>]
    IN  IF ~e.hasProgressCanvas THEN Done(e1, cv1)
        ELSE IF e.progress = NULL THEN Raise(e1, cv1)
        ELSE Done(e1, [SetSize(cv1, e.progress, width, height)
                          EXCEPT ![e.progress].styleWidth = <<elementWidth, "px">>])

clearWave(e, cv) ==
    IF e.waveCtx = NULL THEN Raise(e, cv)
    ELSE
    LET cv1 == ClearRect(cv, e.waveCtx)
    IN  IF ~e.hasProgressCanvas THEN Done(e, cv1)
        ELSE IF e.progressCtx = NULL THEN Raise(e, cv1)
        ELSE Done(e, ClearRect(cv1, e.progressCtx))

\* variant: the last stop placed at the gradient's end, index / (length - 1)
StopOffsetToEnd(index, length) == Num(index, length - 1)

\* stop index / color.length for the index-th color (index from 0)
StopOffset(index, length) == Num(index, length)

\* the value returned, or "throws" when ctx is dereferenced while null
getFillStyle(cv, ctx, color) ==
    IF "str" \in DOMAIN color THEN color
    ELSE IF ctx = NULL THEN [throws |-> TRUE]
    ELSE [grad  |-> <<0, 0, 0, cv[ctx].height>>,
          stops |-> [k \in 1 .. Len(color.arr) |->
                        [offset |-> StopOffset(k - 1, Len(color.arr)),
                         color  |-> color.arr[k]]]]

setFillStyles(e, cv, waveColor, progressColor) ==
    IF e.waveCtx = NULL THEN Raise(e, cv)
    ELSE
    LET cv1 == [cv EXCEPT ![e.waveCtx].fillStyle =
                              getFillStyle(cv, e.waveCtx, waveColor)]
    IN  IF ~e.hasProgressCanvas THEN Done(e, cv1)
        ELSE IF e.progressCtx = NULL THEN Raise(e, cv1)
        ELSE Done(e, [cv1 EXCEPT ![e.progressCtx].fillStyle =
                              getFillStyle(cv1, e.progressCtx, progressColor)])

applyCanvasTransforms(e, cv, vertical) ==
    IF ~vertical THEN Done(e, cv)
    ELSE IF e.waveCtx = NULL THEN Raise(e, cv)
    ELSE
    LET cv1 == SetTransform(cv, e.waveCtx, Swap)
    IN  IF ~e.hasProgressCanvas THEN Done(e, cv1)
        ELSE IF e.progressCtx = NULL THEN Raise(e, cv1)
        ELSE Done(e, SetTransform(cv1, e.progressCtx, Swap))

\* the rounded outline, as the rectangle it rounds: x, y, width, height, radius
drawRoundedRect(cv, ctx, x, y, width, height, radius) ==
    IF height = 0 THEN cv
    ELSE IF height < 0
         THEN Paint(cv, ctx, "roundedRect",
                    <<x, y - (-height), width, -height, radius>>, <<>>)
         ELSE Paint(cv, ctx, "roundedRect", <<x, y, width, height, radius>>, <<>>)

fillRectToContext(cv, ctx, x, y, width, height, radius) ==
    IF ctx = NULL THEN cv
    ELSE IF radius # 0 THEN drawRoundedRect(cv, ctx, x, y, width, height, radius)
    ELSE Paint(cv, ctx, "fillRect", <<x, y, width, height>>, <<>>)

fillRects(e, cv, x, y, width, height, radius) ==
    LET cv1 == fillRectToContext(cv, e.waveCtx, x, y, width, height, radius)
    IN  IF ~e.hasProgressCanvas THEN Done(e, cv1)
        ELSE Done(e, fillRectToContext(cv1, e.progressCtx, x, y, width, height, radius))

\* peaks[index] || 0, with index a JavaScript number
PeakAt(peaks, index) ==
    IF IsInteger(index) /\ index.n >= 0 /\ index.n < Len(peaks)
    THEN OrZero(peaks[index.n + 1])
    ELSE IntNum(0)

\* const first = Math.round(length * this.start)
FirstIndex(e, peaks) == MathRound(NumMul(Num(Len(peaks), 2), e.start))

\* variant: without the extra sample that joins adjacent tiles
LastIndexNoOverlap(e, peaks) == MathRound(NumMul(Num(Len(peaks), 2), e.end))

\* const last = Math.round(length * this.end) + 1
LastIndex(e, peaks) ==
    NumAdd(MathRound(NumMul(Num(Len(peaks), 2), e.end)), IntNum(1))

\* variant: the width divided by the number of samples in the window
ScaleOverCount(width, first, last) == NumDiv(IntNum(width), NumSub(last, first))

\* const scale = this.wave.width / (canvasEnd - canvasStart - 1)
Scale(width, first, last) ==
    NumDiv(IntNum(width), NumSub(NumSub(last, first), IntNum(1)))

\* variant: the scaled position rounded to a whole pixel first
VertexXRounded(i, first, scale, halfPixel) ==
    NumAdd(MathRound(NumMul(NumSub(i, first), scale)), halfPixel)

\* the x handed to lineTo for sample index i on either envelope walk
VertexX(i, first, scale, halfPixel) ==
    NumAdd(NumMul(NumSub(i, first), scale), halfPixel)

\* halfOffset - Math.round(peak / absmaxHalf)
VertexY(peak, absmax, halfH, offsetY) ==
    NumSub(NumAdd(halfH, offsetY), MathRound(NumDiv(peak, NumDiv(absmax, halfH))))

\* the forward loop "for (i = first; i < last; i++)" never ends when the
\* counter cannot reach the bound
ForwardLoopHangs(first, last) ==
    NumLess(first, last) /\ (first.d = 0 \/ last.d = 0)

\* likewise the backward loop "for (j = last - 1; j >= first; j--)"
BackwardLoopHangs(first, last) ==
    NumGeq(NumSub(last, IntNum(1)), first) /\ (first.d = 0 \/ last.d = 0)

\* the arguments of the moveTo / lineTo calls, in order; each carries the
\* statement that issued it (seg) and the sample index it read (i)
PathPoints(e, width, peaks, absmax, halfH, offsetY) ==
    LET first == FirstIndex(e, peaks)
        last  == LastIndex(e, peaks)
        scale == Scale(width, first, last)
        x0    == NumMul(NumSub(first, first), scale)
        count == IF IsFinite(first) /\ IsFinite(last) /\ NumLess(first, last)
                 THEN last.n - first.n ELSE 0
        Top(i)    == [seg |-> "top", i |-> i,
                      x |-> VertexX(i, first, scale, e.halfPixel),
                      y |-> VertexY(PeakAt(peaks, NumMul(IntNum(2), i)),
                                    absmax, halfH, offsetY)]
        Bottom(j) == [seg |-> "bottom", i |-> j,
                      x |-> VertexX(j, first, scale, e.halfPixel),
                      y |-> VertexY(PeakAt(peaks, NumAdd(NumMul(IntNum(2), j), IntNum(1))),
                                    absmax, halfH, offsetY)]
    IN  << [seg |-> "move", i |-> first, x |-> x0, y |-> NumAdd(halfH, offsetY)],
           [seg |-> "open", i |-> first, x |-> x0,
            y |-> VertexY(PeakAt(peaks, NumMul(IntNum(2), first)),
                          absmax, halfH, offsetY)] >>
        \o [k \in 1 .. count |-> Top(IntNum(first.n + k - 1))]
        \o [k \in 1 .. count |-> Bottom(IntNum(last.n - k))]
        \o << [seg |-> "close", i |-> first, x |-> x0,
               y |-> VertexY(PeakAt(peaks, NumAdd(NumMul(IntNum(2), first), IntNum(1))),
                             absmax, halfH, offsetY)] >>

drawLineToContext(e, cv, ctx, peaks, absmax, halfH, offsetY) ==
    IF ctx = NULL THEN Done(e, cv)
    ELSE IF e.wave = NULL THEN Raise(e, cv)
    ELSE
    LET first == FirstIndex(e, peaks)
        last  == LastIndex(e, peaks)
    IN  IF ForwardLoopHangs(first, last) \/ BackwardLoopHangs(first, last)
        THEN Outcome(e, cv, FALSE, TRUE)
        ELSE Done(e, Paint(cv, ctx, "fillPath", <<>>,
                           PathPoints(e, cv[e.wave].width, peaks,
                                      absmax, halfH, offsetY)))

drawLines(e, cv, peaks, absmax, halfH, offsetY) ==
    LET r == drawLineToContext(e, cv, e.waveCtx, peaks, absmax, halfH, offsetY)
    IN  IF r.raised \/ r.hung \/ ~e.hasProgressCanvas THEN r
        ELSE drawLineToContext(e, r.cv, e.progressCtx, peaks, absmax, halfH, offsetY)

\* variant: only the wave handles are released
destroyWaveOnly(e, cv) ==
    Done([e EXCEPT !.waveCtx = NULL, !.wave = NULL], cv)

destroy(e, cv) ==
    Done([e EXCEPT !.waveCtx = NULL, !.wave = NULL,
                   !.progressCtx = NULL, !.progress = NULL], cv)

\* what getImage returns: [kind |-> "undefined"], a data URL string encoding
\* the pixels of one canvas, or the Promise it created
Undefined == [kind |-> "undefined"]

\* canvas.toDataURL / the Blob handed to a toBlob callback: which element was
\* encoded, and what had last been painted on it when the call was made
Encode(cv, element) == [src |-> element, pix |-> cv[element].content.op]

\* variant: the progress canvas is encoded when there is one
ExportSourceProgress(e) == IF e.progress # NULL THEN e.progress ELSE e.wave

\* the element getImage encodes
ExportSource(e) == e.wave

\* state of the Promise getImage(.., 'blob') returns, as the call returns it
NewBlobPromise(e) ==
    IF ExportSource(e) = NULL
    THEN [state |-> "rejected", settled |-> 1, src |-> NULL]
    ELSE [state |-> "pending", settled |-> 0, src |-> ExportSource(e)]

\* resolve(value) on a Promise
Resolve(p) ==
    IF p.state = "pending"
    THEN [p EXCEPT !.state = "fulfilled", !.settled = p.settled + 1]
    ELSE p

----------------------------------------------------------------------------
(* frame(func): the wrapper that defers a call to the next display frame *)

\* reqAnimationFrame(callback): the platform keeps the callback until the
\* next display frame
reqAnimationFrame(queue, callback) == Append(queue, callback)

\* variant: a wrapper that registers nothing while a callback is waiting
frameCoalescing(queue, args) ==
    IF queue = <<>> THEN Append(queue, [args |-> args]) ELSE queue

\* the function frame(func) returns, called with args: it registers one
\* callback, () => func(...args), per call
frame(queue, args) == reqAnimationFrame(queue, [args |-> args])

----------------------------------------------------------------------------
(* Actions: one per method call on tile t *)

Step(t, op, args, r, ret, newPass) ==
    /\ ~hung
    /\ entry' = [entry EXCEPT ![t] = r.entry]
    /\ canvas' = r.cv
    /\ hung' = r.hung
    /\ call' = [op |-> op, tile |-> t, args |-> args, raised |-> r.raised,
                unattached |-> entry[t].waveCtx = NULL, ret |-> ret]
    /\ pass' = [pass EXCEPT ![t] = newPass]
    /\ UNCHANGED <<series, rafQueue, invoked, requested>>

InitWave(t) ==
    /\ Step(t, "initWave", [element |-> WaveEl(t)],
            initWave(entry[t], canvas, WaveEl(t)), Undefined, "none")
    /\ UNCHANGED <<promises, blobJobs>>

\* the owner attaches a progress canvas only to entries it flagged
InitProgress(t) ==
    /\ entry[t].hasProgressCanvas
    /\ Step(t, "initProgress", [element |-> ProgressEl(t)],
            initProgress(entry[t], canvas, ProgressEl(t)), Undefined, "none")
    /\ UNCHANGED <<promises, blobJobs>>

UpdateDimensions(t, elementWidth, totalWidth, width, height) ==
    /\ Step(t, "updateDimensions",
            [elementWidth |-> elementWidth, totalWidth |-> totalWidth,
             width |-> width, height |-> height],
            updateDimensions(entry[t], canvas, elementWidth, totalWidth, width, height),
            Undefined, "none")
    /\ UNCHANGED <<promises, blobJobs>>

ClearWave(t) ==
    /\ Step(t, "clearWave", [none |-> TRUE], clearWave(entry[t], canvas),
            Undefined, pass[t])
    /\ UNCHANGED <<promises, blobJobs>>

SetFillStyles(t, waveColor, progressColor) ==
    /\ Step(t, "setFillStyles",
            [waveColor |-> waveColor, progressColor |-> progressColor],
            setFillStyles(entry[t], canvas, waveColor, progressColor),
            Undefined, pass[t])
    /\ UNCHANGED <<promises, blobJobs>>

\* a render pass begins here: pass[t] keeps the flag the pass was given
ApplyCanvasTransforms(t, vertical) ==
    LET r == applyCanvasTransforms(entry[t], canvas, vertical)
    IN  /\ Step(t, "applyCanvasTransforms", [vertical |-> vertical], r, Undefined,
                IF r.raised \/ entry[t].waveCtx = NULL THEN "none"
                ELSE IF vertical THEN "vertical" ELSE "horizontal")
        /\ UNCHANGED <<promises, blobJobs>>

FillRects(t, x, y, width, height, radius) ==
    /\ Step(t, "fillRects", [none |-> TRUE],
            fillRects(entry[t], canvas, x, y, width, height, radius),
            Undefined, pass[t])
    /\ UNCHANGED <<promises, blobJobs>>

DrawLines(t, absmax, halfH, offsetY) ==
    /\ Step(t, "drawLines",
            [absmax |-> absmax, halfH |-> halfH, offsetY |-> offsetY],
            drawLines(entry[t], canvas, series, absmax, halfH, offsetY),
            Undefined, pass[t])
    /\ UNCHANGED <<promises, blobJobs>>

Destroy(t) ==
    /\ Step(t, "destroy", [none |-> TRUE], destroy(entry[t], canvas),
            Undefined, "none")
    /\ UNCHANGED <<promises, blobJobs>>

\* getImage(format, quality, 'dataURL')
GetImageDataURL(t) ==
    LET src == ExportSource(entry[t])
    IN  /\ IF src = NULL
           THEN Step(t, "getImage", [type |-> "dataURL"],
                     Raise(entry[t], canvas), Undefined, pass[t])
           ELSE Step(t, "getImage", [type |-> "dataURL"], Done(entry[t], canvas),
                     [kind |-> "string", data |-> Encode(canvas, src)], pass[t])
        /\ UNCHANGED <<promises, blobJobs>>

\* getImage(format, quality, 'blob'): the executor calls toBlob at once; the
\* platform keeps the callback with a copy of the pixels
GetImageBlob(t) ==
    LET p  == NewBlobPromise(entry[t])
        id == Len(promises) + 1
    IN  /\ Len(promises) < MaxExports
        /\ Step(t, "getImage", [type |-> "blob"], Done(entry[t], canvas),
                [kind |-> "promise", id |-> id], pass[t])
        /\ promises' = Append(promises, p)
        /\ blobJobs' = IF p.state = "pending"
                       THEN blobJobs \cup {[id |-> id, blob |-> Encode(canvas, p.src)]}
                       ELSE blobJobs

\* getImage with any other type falls through both branches
GetImageOther(t) ==
    /\ Step(t, "getImage", [type |-> "other"], Done(entry[t], canvas),
            Undefined, pass[t])
    /\ UNCHANGED <<promises, blobJobs>>

\* the platform runs a toBlob callback: resolve(blob)
BlobCallback(job) ==
    /\ ~hung
    /\ job \in blobJobs
    /\ blobJobs' = blobJobs \ {job}
    /\ promises' = [promises EXCEPT ![job.id] = Resolve(promises[job.id])]
    /\ call' = [op |-> "toBlobCallback", tile |-> NoTile, args |-> [id |-> job.id],
                raised |-> FALSE, unattached |-> FALSE,
                ret |-> [kind |-> "blob", data |-> job.blob]]
    /\ UNCHANGED <<entry, canvas, series, pass, hung, rafQueue, invoked, requested>>

----------------------------------------------------------------------------
(* The life of one tile: every method, in any order *)

TwoPairs == <<IntNum(1), IntNum(-1), Half, NumNeg(Half)>>

\* tile B sits at the left edge or one pixel in; its owner may or may not
\* have given it a progress canvas
Init == InitWith(BOOLEAN, {Half}, {0, 1}, {TwoPairs})

WaveColors == {Solid("red")}

ProgressColors == {Solid("blue")}

Next ==
    \E t \in {"B"} :
        \/ InitWave(t)
        \/ InitProgress(t)
        \/ \E tw \in {0, 2} : UpdateDimensions(t, 1, tw, 4, 2)
        \/ ClearWave(t)
        \/ \E wc \in WaveColors, pc \in ProgressColors : SetFillStyles(t, wc, pc)
        \/ \E v \in BOOLEAN : ApplyCanvasTransforms(t, v)
        \/ \E h \in {-2, 0}, r \in {0, 1} : FillRects(t, 0, 2, 1, h, r)
        \/ DrawLines(t, IntNum(1), IntNum(1), IntNum(0))
        \/ Destroy(t)

Spec == Init /\ [][Next]_vars

----------------------------------------------------------------------------
(* Exports interleaved with clearing, redrawing and destruction *)

InitExport == InitWith({TRUE}, {Half}, {0}, {TwoPairs})

NextExport ==
    \E t \in {"A"} :
        \/ InitWave(t)
        \/ InitProgress(t)
        \/ \E tw \in {0, 1} : UpdateDimensions(t, 1, tw, 4, 2)
        \/ ClearWave(t)
        \/ DrawLines(t, IntNum(1), IntNum(1), IntNum(0))
        \/ Destroy(t)
        \/ GetImageDataURL(t)
        \/ GetImageBlob(t)
        \/ GetImageOther(t)
        \/ \E job \in blobJobs : BlobCallback(job)

SpecExport == InitExport /\ [][NextExport]_vars

----------------------------------------------------------------------------
(* Render triggers wrapped with frame(func) *)

\* what a render trigger may pass on to func
TriggerArgs == {"resize", "scroll"}

\* a call of the wrapped function
WrappedCall(args) ==
    /\ Len(rafQueue) < MaxQueue
    /\ rafQueue' = frame(rafQueue, args)
    /\ requested' = requested + 1
    /\ UNCHANGED <<invoked, entry, canvas, series, call, pass, hung,
                   promises, blobJobs>>

\* the next display frame: the platform runs every registered callback, in
\* the order of registration; invoked lists the arguments func received and
\* call.args.requests the number of wrapped calls the frame answers
DisplayFrame ==
    /\ invoked' = [k \in 1 .. Len(rafQueue) |-> rafQueue[k].args]
    /\ rafQueue' = <<>>
    /\ requested' = 0
    /\ call' = [op |-> "displayFrame", tile |-> NoTile, args |-> [requests |-> requested],
                raised |-> FALSE, unattached |-> FALSE, ret |-> Undefined]
    /\ UNCHANGED <<entry, canvas, series, pass, hung, promises, blobJobs>>

InitFrame == InitWith({FALSE}, {Half}, {0}, {TwoPairs})

NextFrame ==
    \/ \E a \in TriggerArgs : WrappedCall(a)
    \/ DisplayFrame

SpecFrame == InitFrame /\ [][NextFrame]_vars

----------------------------------------------------------------------------
(* Two adjacent tiles drawing one series *)

\* the owner lays the tiles out side by side: A spans the pixels left of
\* B's offset, B the rest of the waveform's MaxTotalWidth pixels
LayoutWidth(t) ==
    IF t = "A" THEN canvas[WaveEl("B")].offsetLeft
    ELSE MaxTotalWidth - canvas[WaveEl("B")].offsetLeft

SurfaceWidths == {4, 100}

InitDraw == InitWith({FALSE}, HalfPixels, 0 .. MaxTotalWidth, PeakSeries)

NextDraw ==
    \E t \in Tiles :
        \/ InitWave(t)
        \/ \E w \in SurfaceWidths :
              UpdateDimensions(t, LayoutWidth(t), MaxTotalWidth, w, 100)
        \/ ClearWave(t)
        \/ DrawLines(t, IntNum(1), IntNum(50), IntNum(0))

SpecDraw == InitDraw /\ [][NextDraw]_vars

----------------------------------------------------------------------------
(* Fill styles: single colors and color lists *)

Palette == {"red", "blue"}

ColorArgs ==
    {Solid(c) : c \in Palette}
    \cup {ColorList(l) : l \in UNION {[1 .. k -> Palette] : k \in 0 .. MaxStops}}

ProgressColorArgs == {Solid("blue"), ColorList(<<"blue", "red">>)}

InitStyle == InitWith(BOOLEAN, {Half}, {0}, {TwoPairs})

NextStyle ==
    \E t \in {"A"} :
        \/ InitWave(t)
        \/ InitProgress(t)
        \/ \E h \in {2, 100} : UpdateDimensions(t, 1, 1, 4, h)
        \/ \E wc \in ColorArgs, pc \in ProgressColorArgs : SetFillStyles(t, wc, pc)
        \/ FillRects(t, 0, 0, 1, 2, 0)

SpecStyle == InitStyle /\ [][NextStyle]_vars

----------------------------------------------------------------------------
(* Properties *)

DrawOps == {"clearWave", "setFillStyles", "applyCanvasTransforms",
            "fillRects", "drawLines"}

\* C1: on a tile whose wave surface is not attached (never attached, or
\* released by destroy), clearWave, setFillStyles, applyCanvasTransforms(true),
\* fillRects and drawLines raise no error and change no tile or surface state.
C1_UnattachedDrawIsNoOp ==
    [][ \A t \in Tiles :
          ( /\ entry[t].wave = NULL
            /\ entry[t].waveCtx = NULL
            /\ call'.tile = t
            /\ call'.op \in DrawOps
            /\ (call'.op = "applyCanvasTransforms" => call'.args.vertical) )
          => ( /\ ~call'.raised
               /\ ~hung'
               /\ entry' = entry
               /\ canvas' = canvas ) ]_vars

PassTransform(t) == IF pass[t] = "vertical" THEN Swap ELSE Identity

\* C2: whenever a render pass that began with applyCanvasTransforms(vertical)
\* has drawn on an attached tile, the transform on the wave surface (and on
\* the progress surface when present) is the swap matrix if the pass's flag
\* is true and the identity if it is false.
C2_TransformFollowsPassFlag ==
    \A t \in Tiles :
        ( /\ pass[t] # "none"
          /\ call.tile = t
          /\ call.op \in {"drawLines", "fillRects"}
          /\ entry[t].waveCtx # NULL )
        => ( /\ canvas[entry[t].waveCtx].transform = PassTransform(t)
             /\ entry[t].progressCtx # NULL
                  => canvas[entry[t].progressCtx].transform = PassTransform(t) )

C4_Export ==
    /\ (call.op = "getImage" /\ ~call.unattached /\ call.args.type = "dataURL")
          => ( /\ ~call.raised
               /\ call.ret.kind = "string"
               /\ call.ret.data.src = WaveEl(call.tile) )
    /\ (call.op = "getImage" /\ ~call.unattached /\ call.args.type = "blob")
          => ( /\ ~call.raised
               /\ call.ret.kind = "promise"
               /\ promises[call.ret.id].state = "pending"
               /\ promises[call.ret.id].settled = 0 )
    /\ \A id \in DOMAIN promises :
          promises[id].src # NULL
          => /\ promises[id].src \in {WaveEl(t) : t \in Tiles}
             /\ \/ /\ promises[id].state = "pending"
                   /\ promises[id].settled = 0
                   /\ Cardinality({j \in blobJobs : j.id = id}) = 1
                \/ /\ promises[id].state = "fulfilled"
                   /\ promises[id].settled = 1
                   /\ {j \in blobJobs : j.id = id} = {}
    /\ \A j \in blobJobs : j.blob.src = promises[j.id].src

\* a blob export settled by its callback after the surface was repainted and
\* the tile destroyed
C4_Witness ==
    /\ call.op = "toBlobCallback"
    /\ promises[call.args.id].state = "fulfilled"
    /\ call.ret.data.src = WaveEl("A")
    /\ entry["A"].wave = NULL
    /\ canvas[WaveEl("A")].content.op # call.ret.data.pix

Released(e) ==
    e.wave = NULL /\ e.waveCtx = NULL /\ e.progress = NULL /\ e.progressCtx = NULL

\* C5: destroy() raises no error from any tile state and leaves wave, waveCtx,
\* progress and progressCtx null; a further destroy() changes nothing.
C5_DestroyIdempotent ==
    call.op = "destroy"
        => /\ ~call.raised
           /\ ~hung
           /\ Released(entry[call.tile])
           /\ destroy(entry[call.tile], canvas) = Done(entry[call.tile], canvas)

\* destroy() called on a tile that a previous destroy() had already released,
\* after both of its canvases had been attached and sized
C5_Witness ==
    /\ call.op = "destroy"
    /\ call.unattached
    /\ canvas[WaveEl("B")].styleWidth # <<>>
    /\ canvas[ProgressEl("B")].styleWidth # <<>>
    /\ Released(entry["B"])

TopPoints(c) == SelectSeq(c.pts, LAMBDA p : p.seg = "top")

BottomPoints(c) == SelectSeq(c.pts, LAMBDA p : p.seg = "bottom")

WalkPoints(c) == SelectSeq(c.pts, LAMBDA p : p.seg \in {"top", "bottom"})

Range(f) == {f[k] : k \in DOMAIN f}

PlottedIndices(c) == {p.i.n : p \in Range(WalkPoints(c))}

\* r is x rounded to the nearest integer, halves upwards: r <= x + 1/2 < r + 1
IsRounded(r, x) ==
    /\ IsFinite(x)
    /\ 2 * x.d * r <= 2 * x.n + x.d
    /\ 2 * x.n + x.d < 2 * x.d * (r + 1)

Pairs == Len(series) \div 2

Times(k, x) == [n |-> k * x.n, d |-> x.d]

BothDrawn ==
    /\ entry["A"].wave # NULL
    /\ entry["B"].wave # NULL
    /\ canvas[WaveEl("A")].content.op = "fillPath"
    /\ canvas[WaveEl("B")].content.op = "fillPath"
    /\ entry["A"].end = entry["B"].start

\* C6: for adjacent tiles A and B with A.end = B.start = e, drawn from the
\* same series of N pairs, the last index A plots (at its rightmost x) and
\* the first index B plots (at its leftmost x) are both round(N * e); each
\* tile plots a run of consecutive indices, and the two runs share that
\* index and no other.
C6_SharedBoundaryIndex ==
    LET ca == canvas[WaveEl("A")].content
        cb == canvas[WaveEl("B")].content
        ta == TopPoints(ca)
        tb == TopPoints(cb)
        ia == PlottedIndices(ca)
        ib == PlottedIndices(cb)
        lastA  == ta[Len(ta)]
        firstB == tb[1]
    IN  BothDrawn
        => /\ ta # <<>> /\ tb # <<>>
           /\ lastA.i = firstB.i
           /\ IsRounded(lastA.i.n, Times(Pairs, entry["A"].end))
           /\ \A p \in Range(WalkPoints(ca)) : ~NumLess(lastA.x, p.x)
           /\ \A p \in Range(WalkPoints(cb)) : ~NumLess(p.x, firstB.x)
           /\ IsRounded(ta[1].i.n, Times(Pairs, entry["A"].start))
           /\ IsRounded(tb[Len(tb)].i.n, Times(Pairs, entry["B"].end))
           /\ ia = ta[1].i.n .. lastA.i.n
           /\ ib = firstB.i.n .. tb[Len(tb)].i.n
           /\ ia \cap ib = {lastA.i.n}

\* both tiles drawn, the shared index strictly inside the series, and each
\* tile plotting more than the shared index
C6_Witness ==
    /\ BothDrawn
    /\ Pairs = 3
    /\ Cardinality(PlottedIndices(canvas[WaveEl("A")].content)) >= 2
    /\ Cardinality(PlottedIndices(canvas[WaveEl("B")].content)) >= 2
    /\ 1 \in PlottedIndices(canvas[WaveEl("A")].content)
                \cap PlottedIndices(canvas[WaveEl("B")].content)

\* C7: after updateDimensions(elementWidth, totalWidth, width, height) on an
\* attached tile, start is offsetLeft / totalWidth, or 0 whenever totalWidth
\* is 0; end is start + elementWidth / totalWidth; the wave buffer is
\* width x height, and so is the progress buffer when there is one.
C7_UpdateDimensions ==
    (call.op = "updateDimensions" /\ ~call.unattached /\ ~call.raised)
    => LET e == entry[call.tile]
           a == call.args
       IN  /\ e.start = IF a.totalWidth = 0 THEN IntNum(0)
                        ELSE Num(canvas[e.wave].offsetLeft, a.totalWidth)
           /\ e.end = NumAdd(e.start, NumDiv(IntNum(a.elementWidth),
                                             IntNum(a.totalWidth)))
           /\ canvas[e.wave].width = a.width
           /\ canvas[e.wave].height = a.height
           /\ e.progress # NULL
                => /\ canvas[e.progress].width = a.width
                   /\ canvas[e.progress].height = a.height

\* the end-to-end example: 2 pairs, absMax 1, halfHeight 50, offsetY 0, a
\* tile spanning 0..1 on a surface 100 wide
EndToEnd(t) ==
    /\ series = TwoPairs
    /\ call.op = "drawLines" /\ call.tile = t /\ ~call.raised
    /\ call.args = [absmax |-> IntNum(1), halfH |-> IntNum(50), offsetY |-> IntNum(0)]
    /\ entry[t].start = IntNum(0)
    /\ entry[t].end = IntNum(1)
    /\ canvas[WaveEl(t)].width = 100
    /\ canvas[WaveEl(t)].content.op = "fillPath"

\* the distance in x between every two consecutive vertices of the top walk
StepIs(c, pixels) ==
    LET top == TopPoints(c)
    IN  /\ Len(top) >= 2
        /\ \A k \in 1 .. Len(top) - 1 :
              NumSub(top[k + 1].x, top[k].x) = IntNum(pixels)

FirstSampleAtFullHeight(c) ==
    LET top == TopPoints(c)
        bottom == BottomPoints(c)
    IN  /\ top # <<>> /\ bottom # <<>>
        /\ top[1].i = IntNum(0) /\ top[1].y = IntNum(0)
        /\ bottom[Len(bottom)].i = IntNum(0) /\ bottom[Len(bottom)].y = IntNum(100)

Resolves(style, color, height) ==
    IF "str" \in DOMAIN color THEN style = color
    ELSE LET k == Len(color.arr)
         IN  k >= 1
             => /\ DOMAIN style = {"grad", "stops"}
                /\ style.grad = <<0, 0, 0, height>>
                /\ Len(style.stops) = k
                /\ \A i \in 1 .. k :
                      /\ style.stops[i].color = color.arr[i]
                      /\ IsFinite(style.stops[i].offset)
                      /\ style.stops[i].offset.n * k
                            = (i - 1) * style.stops[i].offset.d
                      /\ style.stops[i].offset.n < style.stops[i].offset.d

\* C9: setFillStyles gives each surface the style getFillStyle resolves: a
\* single color unchanged; a list of k >= 1 colors as a vertical gradient
\* over the surface height with exactly k stops, stop i carrying color i at
\* offset i / k, none at offset 1.
C9_GradientStops ==
    (call.op = "setFillStyles" /\ ~call.unattached)
    => LET e == entry[call.tile]
       IN  /\ Resolves(canvas[e.waveCtx].fillStyle, call.args.waveColor,
                       canvas[e.waveCtx].height)
           /\ (~call.raised /\ e.hasProgressCanvas)
                => Resolves(canvas[e.progressCtx].fillStyle,
                            call.args.progressColor, canvas[e.progressCtx].height)

\* a two-color list resolved on both surfaces of a sized tile
C9_Witness ==
    /\ call.op = "setFillStyles" /\ ~call.unattached /\ ~call.raised
    /\ entry["A"].hasProgressCanvas
    /\ call.args.waveColor = ColorList(<<"red", "blue">>)
    /\ call.args.progressColor = ColorList(<<"blue", "red">>)
    /\ canvas[WaveEl("A")].height = 100
    /\ canvas[WaveEl("A")].fillStyle.stops[2].offset = Half
    /\ canvas[ProgressEl("A")].fillStyle.stops[2].color = "red"

\* C10 as claimed: every vertex of the two envelope walks, for sample index
\* i, has x = round((i - first) * scale) + halfPixel.
C10_RoundedX ==
    \A t \in Tiles :
        LET c == canvas[WaveEl(t)].content
            scale == NumDiv(IntNum(canvas[WaveEl(t)].width),
                            IntNum(Len(TopPoints(c)) - 1))
        IN  c.op = "fillPath"
            => \A p \in Range(WalkPoints(c)) :
                  p.x = NumAdd(MathRound(NumMul(NumSub(p.i, c.pts[1].i), scale)),
                               entry[t].halfPixel)

\* C10 as the code behaves: the walks visit the indices first .. last - 1
\* forwards and then backwards, and the vertex for index i has
\* x = (i - first) * scale + halfPixel, not rounded: (x - halfPixel) times
\* (last - first - 1) is (i - first) times the surface width; when the window
\* holds a single index the scale is infinite and x is NaN.
C10_UnroundedX ==
    \A t \in Tiles :
        LET c == canvas[WaveEl(t)].content
            top == TopPoints(c)
            bottom == BottomPoints(c)
            count == Len(top)
            first == c.pts[1].i
        IN  c.op = "fillPath"
            => /\ Len(bottom) = count
               /\ \A k \in 1 .. count :
                     /\ top[k].i = IntNum(first.n + k - 1)
                     /\ bottom[k].i = IntNum(first.n + count - k)
               /\ \A p \in Range(WalkPoints(c)) :
                     IF count = 1 THEN IsNaN(p.x)
                     ELSE NumMul(NumSub(p.x, entry[t].halfPixel), IntNum(count - 1))
                             = IntNum((p.i.n - first.n) * canvas[WaveEl(t)].width)

\* a vertex that a rounded x would have moved: 100 pixels over 3 steps
C10_Witness ==
    LET c == canvas[WaveEl("A")].content
    IN  /\ c.op = "fillPath"
        /\ canvas[WaveEl("A")].width = 100
        /\ Len(TopPoints(c)) = 4
        /\ TopPoints(c)[2].x = NumAdd(Num(100, 3), entry["A"].halfPixel)
====
